---- MODULE Spec2Model ----
(***************************************************************************)
(* Voice evaluation microservice: the asynchronous job pipeline.           *)
(*                                                                         *)
(* A client posts an audio file (transcribe_and_evaluate), the file is     *)
(* saved and a Celery task is enqueued; a worker runs process_audio_task:  *)
(* upload with retry, submit, poll, normalise, analyse, feedback, build    *)
(* the response, remove the file; Celery then stores the outcome in the    *)
(* result backend, which get_task_status reads.                            *)
(***************************************************************************)
EXTENDS Integers, Sequences, FiniteSets, TLC

\* ------------------------------------------------------------------ bounds
MaxJobs == 2

Jobs == 1..MaxJobs

\* ------------------------------------------------------- program constants
max_retries == 3

max_attempts == 60

task_track_started == FALSE

\* ------------------------------------------------------------------- state
VARIABLES
    clients,        \* ids of the clients that post a file in this run
    pc,             \* per job: position of the request handler / the task
    disk,           \* jobs whose audio file exists in the upload directory
    registry,       \* Celery result backend: per job state and payload
    attempt,        \* upload_file_with_retry: loop variable `attempt`
    uploadLog,      \* history: outcome of every upload attempt, in order
    waits,          \* history: seconds slept by upload_file_with_retry
    uploadUrl,      \* process_audio_task: `upload_url` (0 = unset)
    submitLog,      \* history: outcome of every POST /transcript
    pollAttempt,    \* _poll_transcript: local variable `attempt`
    pollRequests,   \* history: number of GET /transcript/{id} sent
    pollSlept,      \* history: seconds slept by _poll_transcript
    lastPoll,       \* history: outcome of the latest status request
    provResult,     \* transcribe_audio's return value (provider result)
    feedback,       \* generate_feedback's return value
    exc,            \* exception propagating out of the task body
    retval,         \* value returned by the task body
    observed,       \* per job: sequence of distinct statuses a poller saw
    queue,          \* broker: per job, the task messages waiting for a worker
    started,        \* history: per job, how often process_audio_task was entered
    calc            \* a call of one analysis function: its input and its result

vars == <<clients, pc, disk, registry, attempt, uploadLog, waits, uploadUrl,
          submitLog, pollAttempt, pollRequests, pollSlept, lastPoll,
          provResult, feedback, exc, retval, observed, queue, started, calc>>

\* -------------------------------------------------------------- exceptions
\* An exception is its Python type and its message, kept as the sequence of
\* the parts the f-strings of the code put together, outermost first.
NoExc == [type |-> "none", msg |-> <<>>]

\* raise Exception(text)
Raise(text) == [type |-> "Exception", msg |-> <<text>>]

\* raise Exception(f"{text}: {detail}") for a detail taken from a response
RaiseWith(text, detail) == [type |-> "Exception", msg |-> <<text, detail>>]

\* Variant: the handler raises its own text and leaves str(e) out.
WrapWithoutCause(prefix, e) == [type |-> "Exception", msg |-> <<prefix>>]

\* raise Exception(f"{prefix}: {str(e)}")
Wrap(prefix, e) == [type |-> "Exception", msg |-> <<prefix>> \o e.msg]

\* an exception raised by httpx itself
HttpxError(kind, detail) == [type |-> kind, msg |-> <<detail>>]

\* `text in str(e)` for a text that is one part of a message
InMessage(text, e) == \E i \in 1..Len(e.msg) : e.msg[i] = text

\* ------------------------------------------------------- transport results
\* What one HTTP call can produce: a response (status, the field of the JSON
\* body the code reads, a detail carried by the body), or an httpx exception.
Response(status, body, detail) ==
    [kind |-> "response", status |-> status, body |-> body, detail |-> detail]

Failure(kind, detail) ==
    [kind |-> kind, status |-> 0, body |-> "", detail |-> detail]

NoOutcome == Failure("none", "")

ReadErrorDetails == {"eof", "reset"}

UploadOutcomes ==
    {Response(200, "upload_url", ""), Response(201, "upload_url", ""),
     Response(200, "no_upload_url", ""),
     Response(401, "", "unauthorized"), Response(413, "", "too large"),
     Response(429, "", "slow down"), Response(500, "", "server error")}
    \cup {Failure("ReadError", d) : d \in ReadErrorDetails}
    \cup {Failure("ConnectError", "refused"),
          Failure("TimeoutException", "timed out")}

SubmitOutcomes ==
    {Response(200, "id", ""), Response(200, "no_id", ""),
     Response(500, "", "server error"),
     Failure("TimeoutException", "timed out"),
     Failure("ConnectError", "refused")}

\* Shapes of a completed provider result that the later stages tell apart.
ResultShapes == {"full", "no_duration", "no_text", "null_text", "null_confidence"}

ProviderErrors == {"bad audio", "too short"}

PollOutcomes ==
    {Response(200, st, "") : st \in {"queued", "processing", "paused"}}
    \cup {Response(200, "completed", sh) : sh \in ResultShapes}
    \cup {Response(200, "error", d) : d \in ProviderErrors}
    \cup {Response(500, "", "server error"),
          Failure("TimeoutException", "timed out"),
          Failure("ReadError", "eof")}

\* What a client can post.
Posts == {"no_filename", "bad_extension", "empty", "too_large", "bad_mime",
          "broker_down", "good"}

\* -------------------------------------------------------------------- Init
\* no analysis function has been called
NoCall == [fn |-> "none"]

NoResult == [transcription |-> "", metrics |-> "", text_feedback |-> ""]

Pending == [state |-> "PENDING", result |-> NoResult, error |-> NoExc]

InitJob ==
    /\ pc = [j \in Jobs |-> "idle"]
    /\ disk = {}
    /\ registry = [j \in Jobs |-> Pending]
    /\ attempt = [j \in Jobs |-> 0]
    /\ uploadLog = [j \in Jobs |-> <<>>]
    /\ waits = [j \in Jobs |-> <<>>]
    /\ uploadUrl = [j \in Jobs |-> 0]
    /\ submitLog = [j \in Jobs |-> <<>>]
    /\ pollAttempt = [j \in Jobs |-> 0]
    /\ pollRequests = [j \in Jobs |-> 0]
    /\ pollSlept = [j \in Jobs |-> 0]
    /\ lastPoll = [j \in Jobs |-> NoOutcome]
    /\ provResult = [j \in Jobs |-> ""]
    /\ feedback = [j \in Jobs |-> ""]
    /\ exc = [j \in Jobs |-> NoExc]
    /\ retval = [j \in Jobs |-> NoResult]
    /\ observed = [j \in Jobs |-> <<>>]
    /\ queue = [j \in Jobs |-> 0]
    /\ started = [j \in Jobs |-> 0]

\* One client posts a file in a run; which one is free.
Init ==
    /\ clients \in {{j} : j \in Jobs}
    /\ InitJob
    /\ calc = NoCall

\* ------------------------------------------------- transcribe_and_evaluate
\* Variant: the enqueue is repeated after a slow broker answer.
EnqueuedTwice(post) == IF post = "good" THEN 2 ELSE 0

\* process_audio_task.delay(...): the task messages one request publishes
Enqueued(post) == IF post = "good" THEN 1 ELSE 0

\* POST /transcribe, the whole handler. open(file_path, "wb") creates the
\* file before the content is read and checked; only the media type check
\* removes it again.
Receive(j, post) ==
    /\ j \in clients
    /\ pc[j] = "idle"
    /\ LET beforeOpen == post \in {"no_filename", "bad_extension"}
           removed == post = "bad_mime"
       IN  /\ disk' = IF beforeOpen \/ removed THEN disk \ {j} ELSE disk \cup {j}
           /\ pc' = [pc EXCEPT ![j] = IF post = "good" THEN "queued" ELSE "rejected"]
    /\ queue' = [queue EXCEPT ![j] = @ + Enqueued(post)]
    /\ UNCHANGED <<clients, registry, attempt, uploadLog, waits, uploadUrl,
                   submitLog, pollAttempt, pollRequests, pollSlept, lastPoll,
                   provResult, feedback, exc, retval, observed,
                   started, calc>>

\* ------------------------------------------------------ the worker's claim
\* A worker takes one message of the job off the queue (the broker hands a
\* message to one worker, and the task is declared without acks_late, so the
\* message is gone once taken) and calls process_audio_task.
\* The backend is written at this point only with task_track_started set.
Claim(j) ==
    /\ queue[j] > 0
    /\ queue' = [queue EXCEPT ![j] = @ - 1]
    /\ started' = [started EXCEPT ![j] = @ + 1]
    /\ pc' = [pc EXCEPT ![j] = "upload"]
    /\ registry' = IF task_track_started
                   THEN [registry EXCEPT ![j].state = "STARTED"]
                   ELSE registry
    /\ UNCHANGED <<clients, disk, attempt, uploadLog, waits, uploadUrl,
                   submitLog, pollAttempt, pollRequests, pollSlept, lastPoll,
                   provResult, feedback, exc, retval, observed, calc>>

\* ------------------------------------------------------------- upload_file
\* One upload attempt of job j whose HTTP call produces o: the reference
\* returned (url > 0, the number of the attempt that obtained it) or the
\* exception raised. The outer handlers of upload_file re-raise a ReadError
\* as it is, replace a TimeoutException, and wrap everything else.
UploadFile(j, o) ==
    LET inner ==
            IF j \notin disk THEN Raise("File not found")
            ELSE IF o.kind # "response" THEN HttpxError(o.kind, o.detail)
            ELSE IF o.status = 401 THEN Raise("Invalid AssemblyAI API key")
            ELSE IF o.status = 413 THEN Raise("File too large for AssemblyAI")
            ELSE IF o.status = 429 THEN Raise("Rate limit exceeded")
            ELSE IF o.status \notin {200, 201}
                 THEN RaiseWith("Upload failed", o.detail)
            ELSE IF o.body # "upload_url" THEN Raise("No upload URL returned")
            ELSE NoExc
        outer ==
            IF inner = NoExc THEN NoExc
            ELSE IF inner.type = "ReadError" THEN inner
            ELSE IF inner.type = "TimeoutException" THEN Raise("Upload timeout")
            ELSE Wrap("File upload error", inner)
    IN  [url |-> IF outer = NoExc THEN Len(uploadLog[j]) + 1 ELSE 0,
         exc |-> outer]

\* ------------------------------------------------- upload_file_with_retry
\* Variant: every exception of an attempt is retried.
RetriedAlways(e) == TRUE

\* except httpx.ReadError
Retried(e) == e.type = "ReadError"

\* Variant: the budget test compares with max_retries, which the loop
\* variable never reaches, so the last failure sleeps and falls out of the loop.
LastAttemptOffByOne(a) == a = max_retries

\* attempt == self.max_retries - 1
LastAttempt(a) == a = max_retries - 1

\* Variant: the backoff exponent counted from 1 (waits of 2s, 4s).
WaitTimeFromOne(a) == 2 ^ (a + 1)

\* wait_time = 2 ** attempt
WaitTime(a) == 2 ^ a

\* One iteration of the loop: the attempt, and for a retried failure the
\* sleep that follows it.
UploadStep(j, o) ==
    /\ pc[j] = "upload"
    /\ attempt[j] < max_retries
    /\ uploadLog' = [uploadLog EXCEPT ![j] = Append(@, o)]
    /\ LET r == UploadFile(j, o)
       IN  IF r.exc = NoExc
           THEN /\ uploadUrl' = [uploadUrl EXCEPT ![j] = r.url]
                /\ pc' = [pc EXCEPT ![j] = "submit"]
                /\ UNCHANGED <<attempt, waits, exc>>
           ELSE IF Retried(r.exc) /\ ~LastAttempt(attempt[j])
           THEN /\ waits' = [waits EXCEPT ![j] = Append(@, WaitTime(attempt[j]))]
                /\ attempt' = [attempt EXCEPT ![j] = @ + 1]
                /\ UNCHANGED <<pc, uploadUrl, exc>>
           ELSE /\ exc' = [exc EXCEPT ![j] =
                        IF Retried(r.exc)
                        THEN Wrap("File upload failed after 3 attempts", r.exc)
                        ELSE r.exc]
                /\ pc' = [pc EXCEPT ![j] = "finally"]
                /\ UNCHANGED <<attempt, waits, uploadUrl>>
    /\ UNCHANGED <<clients, disk, registry, submitLog, pollAttempt,
                   pollRequests, pollSlept, lastPoll, provResult, feedback,
                   retval, observed,
                   queue, started, calc>>

\* -------------------------------------------------------- transcribe_audio
\* Variant: the transcript id of a 200 answer is not checked.
SubmitErrorIdUnchecked(o) ==
    IF o.kind = "TimeoutException"
    THEN Raise("Timeout when submitting transcription job.")
    ELSE IF o.kind # "response"
    THEN Wrap("Transcription process failed", HttpxError(o.kind, o.detail))
    ELSE IF o.status # 200
    THEN Wrap("Transcription process failed",
              RaiseWith("Failed to submit transcription job", o.detail))
    ELSE NoExc

\* The submission request and its handling; a good answer enters the poll
\* loop with attempt = 0.
SubmitError(o) ==
    IF o.kind = "TimeoutException"
    THEN Raise("Timeout when submitting transcription job.")
    ELSE IF o.kind # "response"
    THEN Wrap("Transcription process failed", HttpxError(o.kind, o.detail))
    ELSE IF o.status # 200
    THEN Wrap("Transcription process failed",
              RaiseWith("Failed to submit transcription job", o.detail))
    ELSE IF o.body # "id"
    THEN Wrap("Transcription process failed",
              Raise("Failed to get transcript ID from submission response."))
    ELSE NoExc

SubmitStep(j, o) ==
    /\ pc[j] = "submit"
    /\ submitLog' = [submitLog EXCEPT ![j] =
                        Append(@, [audio_url |-> uploadUrl[j], outcome |-> o])]
    /\ IF SubmitError(o) = NoExc
       THEN /\ pc' = [pc EXCEPT ![j] = "poll"]
            /\ pollAttempt' = [pollAttempt EXCEPT ![j] = 0]
            /\ UNCHANGED exc
       ELSE /\ exc' = [exc EXCEPT ![j] = SubmitError(o)]
            /\ pc' = [pc EXCEPT ![j] = "finally"]
            /\ UNCHANGED pollAttempt
    /\ UNCHANGED <<clients, disk, registry, attempt, uploadLog, waits,
                   uploadUrl, pollRequests, pollSlept, lastPoll, provResult,
                   feedback, retval, observed,
                   queue, started, calc>>

\* --------------------------------------------------------- _poll_transcript
\* Variant: the loop condition admits attempt = max_attempts.
PollLoopCondInclusive(a) == a <= max_attempts

\* while attempt < max_attempts
PollLoopCond(a) == a < max_attempts

\* Variant: only "processing" continues the loop.
StillRunningProcessingOnly(status) == status = "processing"

\* status in ["queued", "processing"]
StillRunning(status) == status \in {"queued", "processing"}

\* Variant: a transport failure or a bad status of one request is swallowed
\* and the iteration counts as one more attempt.
PollErrorTransportRetried(o) ==
    LET inner ==
            IF o.kind # "response" THEN NoExc
            ELSE IF o.status # 200 THEN NoExc
            ELSE IF o.body = "completed" THEN NoExc
            ELSE IF o.body = "error"
                 THEN [type |-> "Exception",
                       msg |-> <<"Transcription failed", o.detail>>]
            ELSE IF o.body \in {"queued", "processing"} THEN NoExc
            ELSE [type |-> "Exception", msg |-> <<"Unknown status", o.body>>]
    IN  IF inner = NoExc THEN NoExc
        ELSE IF InMessage("Transcription failed", inner) THEN inner
        ELSE Wrap("Polling error", inner)

\* The body of one iteration on the answer o: what is raised inside the try
\* block, then what the two handlers after it turn it into.
PollError(o) ==
    LET inner ==
            IF o.kind # "response" THEN HttpxError(o.kind, o.detail)
            ELSE IF o.status # 200 THEN RaiseWith("Polling failed", o.detail)
            ELSE IF o.body = "completed" THEN NoExc
            ELSE IF o.body = "error"
                 THEN [type |-> "Exception",
                       msg |-> <<"Transcription failed", o.detail>>]
            ELSE IF StillRunning(o.body) THEN NoExc
            ELSE [type |-> "Exception", msg |-> <<"Unknown status", o.body>>]
    IN  IF inner = NoExc THEN NoExc
        ELSE IF inner.type = "TimeoutException" THEN Raise("Polling timeout")
        ELSE IF InMessage("Transcription failed", inner) THEN inner
        ELSE Wrap("Polling error", inner)

\* Variant: the loop forgets `attempt += 1` after the sleep.
PollStepNoIncrement(j, o) ==
    /\ pc[j] = "poll"
    /\ PollLoopCond(pollAttempt[j])
    /\ pollRequests' = [pollRequests EXCEPT ![j] = @ + 1]
    /\ lastPoll' = [lastPoll EXCEPT ![j] = o]
    /\ IF PollError(o) # NoExc
       THEN /\ exc' = [exc EXCEPT ![j] =
                          Wrap("Transcription process failed", PollError(o))]
            /\ pc' = [pc EXCEPT ![j] = "finally"]
            /\ UNCHANGED <<pollAttempt, pollSlept, provResult>>
       ELSE IF o.body = "completed"
       THEN /\ provResult' = [provResult EXCEPT ![j] = o.detail]
            /\ pc' = [pc EXCEPT ![j] = "parse"]
            /\ UNCHANGED <<pollAttempt, pollSlept, exc>>
       ELSE /\ pollSlept' = [pollSlept EXCEPT ![j] = @ + 1]
            /\ UNCHANGED <<pc, provResult, exc, pollAttempt>>
    /\ UNCHANGED <<clients, disk, registry, attempt, uploadLog, waits,
                   uploadUrl, submitLog, feedback, retval, observed,
                   queue, started, calc>>

\* One iteration: one status request and, for queued/processing, the sleep
\* of one second and the increment. What _poll_transcript raises passes
\* through transcribe_audio's `except Exception`, which wraps it.
PollStep(j, o) ==
    /\ pc[j] = "poll"
    /\ PollLoopCond(pollAttempt[j])
    /\ pollRequests' = [pollRequests EXCEPT ![j] = @ + 1]
    /\ lastPoll' = [lastPoll EXCEPT ![j] = o]
    /\ IF PollError(o) # NoExc
       THEN /\ exc' = [exc EXCEPT ![j] =
                          Wrap("Transcription process failed", PollError(o))]
            /\ pc' = [pc EXCEPT ![j] = "finally"]
            /\ UNCHANGED <<pollAttempt, pollSlept, provResult>>
       ELSE IF o.body = "completed"
       THEN /\ provResult' = [provResult EXCEPT ![j] = o.detail]
            /\ pc' = [pc EXCEPT ![j] = "parse"]
            /\ UNCHANGED <<pollAttempt, pollSlept, exc>>
       ELSE /\ pollSlept' = [pollSlept EXCEPT ![j] = @ + 1]
            /\ pollAttempt' = [pollAttempt EXCEPT ![j] = @ + 1]
            /\ UNCHANGED <<pc, provResult, exc>>
    /\ UNCHANGED <<clients, disk, registry, attempt, uploadLog, waits,
                   uploadUrl, submitLog, feedback, retval, observed,
                   queue, started, calc>>

\* The loop condition fails: raise Exception("Transcription timeout ...")
\* after the loop, outside its try block.
PollExhausted(j) ==
    /\ pc[j] = "poll"
    /\ ~PollLoopCond(pollAttempt[j])
    /\ exc' = [exc EXCEPT ![j] =
                  Wrap("Transcription process failed",
                       Raise("Transcription timeout - process took too long"))]
    /\ pc' = [pc EXCEPT ![j] = "finally"]
    /\ UNCHANGED <<clients, disk, registry, attempt, uploadLog, waits,
                   uploadUrl, submitLog, pollAttempt, pollRequests, pollSlept,
                   lastPoll, provResult, feedback, retval, observed,
                   queue, started, calc>>

\* ------------------------------------------- the stages after transcription
\* parse_transcription_result: result["text"] raises KeyError when the field
\* is missing; a missing audio_duration is read as 0.
ParseStep(j) ==
    /\ pc[j] = "parse"
    /\ IF provResult[j] = "no_text"
       THEN /\ exc' = [exc EXCEPT ![j] = [type |-> "KeyError", msg |-> <<"text">>]]
            /\ pc' = [pc EXCEPT ![j] = "finally"]
       ELSE /\ pc' = [pc EXCEPT ![j] = "analyze"]
            /\ UNCHANGED exc
    /\ UNCHANGED <<clients, disk, registry, attempt, uploadLog, waits,
                   uploadUrl, submitLog, pollAttempt, pollRequests, pollSlept,
                   lastPoll, provResult, feedback, retval, observed,
                   queue, started, calc>>

\* Variant: the analysis calls sit in a try block of their own that logs the
\* error and goes on to the feedback.
AnalyzeStepSwallowing(j) ==
    /\ pc[j] = "analyze"
    /\ exc' = [exc EXCEPT ![j] =
                  IF provResult[j] = "null_confidence"
                  THEN [type |-> "TypeError", msg |-> <<"unsupported operand">>]
                  ELSE @]
    /\ pc' = [pc EXCEPT ![j] = "feedback"]
    /\ UNCHANGED <<clients, disk, registry, attempt, uploadLog, waits,
                   uploadUrl, submitLog, pollAttempt, pollRequests, pollSlept,
                   lastPoll, provResult, feedback, retval, observed,
                   queue, started, calc>>

\* analyze_pronunciation, analyze_pacing, analyze_pauses: the sum over the
\* confidences raises TypeError on a null confidence.
AnalyzeStep(j) ==
    /\ pc[j] = "analyze"
    /\ IF provResult[j] = "null_confidence"
       THEN /\ exc' = [exc EXCEPT ![j] =
                          [type |-> "TypeError", msg |-> <<"unsupported operand">>]]
            /\ pc' = [pc EXCEPT ![j] = "finally"]
       ELSE /\ pc' = [pc EXCEPT ![j] = "feedback"]
            /\ UNCHANGED exc
    /\ UNCHANGED <<clients, disk, registry, attempt, uploadLog, waits,
                   uploadUrl, submitLog, pollAttempt, pollRequests, pollSlept,
                   lastPoll, provResult, feedback, retval, observed,
                   queue, started, calc>>

\* generate_feedback: the generated text, or the fixed string when the call
\* to the model raises.
Fallback ==
    "Could not generate detailed feedback at this moment. Please try again later."

GenerateFeedback(generated) == IF generated THEN "generated text" ELSE Fallback

\* Variant: generate_feedback has no try block, the provider's exception
\* leaves the stage.
FeedbackStepRaising(j, generated) ==
    /\ pc[j] = "feedback"
    /\ IF generated
       THEN /\ feedback' = [feedback EXCEPT ![j] = "generated text"]
            /\ pc' = [pc EXCEPT ![j] = "build"]
            /\ UNCHANGED exc
       ELSE /\ exc' = [exc EXCEPT ![j] = Raise("generate_content failed")]
            /\ pc' = [pc EXCEPT ![j] = "finally"]
            /\ UNCHANGED feedback
    /\ UNCHANGED <<clients, disk, registry, attempt, uploadLog, waits,
                   uploadUrl, submitLog, pollAttempt, pollRequests, pollSlept,
                   lastPoll, provResult, retval, observed,
                   queue, started, calc>>

FeedbackStep(j, generated) ==
    /\ pc[j] = "feedback"
    /\ feedback' = [feedback EXCEPT ![j] = GenerateFeedback(generated)]
    /\ pc' = [pc EXCEPT ![j] = "build"]
    /\ UNCHANGED <<clients, disk, registry, attempt, uploadLog, waits,
                   uploadUrl, submitLog, pollAttempt, pollRequests, pollSlept,
                   lastPoll, provResult, exc, retval, observed,
                   queue, started, calc>>

\* VoiceEvaluationResponse(...).model_dump(): transcript is declared str, a
\* null text fails validation.
BuildStep(j) ==
    /\ pc[j] = "build"
    /\ IF provResult[j] = "null_text"
       THEN /\ exc' = [exc EXCEPT ![j] =
                          [type |-> "ValidationError", msg |-> <<"transcript">>]]
            /\ UNCHANGED retval
       ELSE /\ retval' = [retval EXCEPT ![j] =
                             [transcription |-> provResult[j],
                              metrics |-> provResult[j],
                              text_feedback |-> feedback[j]]]
            /\ UNCHANGED exc
    /\ pc' = [pc EXCEPT ![j] = "finally"]
    /\ UNCHANGED <<clients, disk, registry, attempt, uploadLog, waits,
                   uploadUrl, submitLog, pollAttempt, pollRequests, pollSlept,
                   lastPoll, provResult, feedback, observed,
                   queue, started, calc>>

\* Variant: the cleanup empties the upload directory.
FinallyWholeDirectory(j) ==
    /\ pc[j] = "finally"
    /\ disk' = {}
    /\ pc' = [pc EXCEPT ![j] = "returned"]
    /\ UNCHANGED <<clients, registry, attempt, uploadLog, waits, uploadUrl,
                   submitLog, pollAttempt, pollRequests, pollSlept, lastPoll,
                   provResult, feedback, exc, retval, observed,
                   queue, started, calc>>

\* Variant: the file is removed at the end of the try block instead of in a
\* finally clause, so a raising stage skips the removal.
FinallyOnlyAfterSuccess(j) ==
    /\ pc[j] = "finally"
    /\ disk' = IF exc[j] = NoExc THEN disk \ {j} ELSE disk
    /\ pc' = [pc EXCEPT ![j] = "returned"]
    /\ UNCHANGED <<clients, registry, attempt, uploadLog, waits, uploadUrl,
                   submitLog, pollAttempt, pollRequests, pollSlept, lastPoll,
                   provResult, feedback, exc, retval, observed,
                   queue, started, calc>>

\* finally: if os.path.exists(file_path): os.remove(file_path)
Finally(j) ==
    /\ pc[j] = "finally"
    /\ disk' = disk \ {j}
    /\ pc' = [pc EXCEPT ![j] = "returned"]
    /\ UNCHANGED <<clients, registry, attempt, uploadLog, waits, uploadUrl,
                   submitLog, pollAttempt, pollRequests, pollSlept, lastPoll,
                   provResult, feedback, exc, retval, observed,
                   queue, started, calc>>

\* The task body has returned or raised: Celery stores the outcome.
Publish(j) ==
    /\ pc[j] = "returned"
    /\ registry' = [registry EXCEPT ![j] =
                       IF exc[j] = NoExc
                       THEN [state |-> "SUCCESS", result |-> retval[j], error |-> NoExc]
                       ELSE [state |-> "FAILURE", result |-> NoResult, error |-> exc[j]]]
    /\ pc' = [pc EXCEPT ![j] = "done"]
    /\ UNCHANGED <<clients, disk, attempt, uploadLog, waits, uploadUrl,
                   submitLog, pollAttempt, pollRequests, pollSlept, lastPoll,
                   provResult, feedback, exc, retval, observed,
                   queue, started, calc>>

\* --------------------------------------------------------- get_task_status
\* Variant: the handler looks the id up first and answers NOT_FOUND for an id
\* no request has enqueued.
StatusResponseKnownIds(j) ==
    LET task == registry[j]
    IN  IF started[j] = 0 /\ queue[j] = 0
        THEN [status |-> "NOT_FOUND", message |-> "Task not found",
              result |-> NoResult]
        ELSE IF task.state = "PENDING"
        THEN [status |-> "PENDING", message |-> "Task is pending or not found",
              result |-> NoResult]
        ELSE IF task.state = "SUCCESS"
        THEN [status |-> "SUCCESS", message |-> "", result |-> task.result]
        ELSE [status |-> "FAILURE", message |-> task.error.msg,
              result |-> NoResult, traceback |-> task.error]

\* GET /status/{task_id}: the answer built from the backend's record. The
\* traceback Celery stores with a failure is represented by the stored
\* exception.
StatusResponse(j) ==
    LET task == registry[j]
    IN  IF task.state = "PENDING"
        THEN [status |-> "PENDING", message |-> "Task is pending or not found",
              result |-> NoResult]
        ELSE IF task.state = "PROGRESS"
        THEN [status |-> "PROGRESS", message |-> "Task is in progress",
              result |-> NoResult]
        ELSE IF task.state = "SUCCESS"
        THEN [status |-> "SUCCESS", message |-> "", result |-> task.result]
        ELSE IF task.state = "FAILURE"
        THEN [status |-> "FAILURE", message |-> task.error.msg,
              result |-> NoResult, traceback |-> task.error]
        ELSE [status |-> task.state, message |-> "Unknown state",
              result |-> NoResult]

\* Variant: the handler calls task.forget() once it has read a finished
\* task, which removes the record from the backend.
QueryForgetting(j) ==
    /\ LET seen == StatusResponse(j).status
       IN  /\ IF observed[j] = <<>> THEN TRUE
              ELSE observed[j][Len(observed[j])] # seen
           /\ observed' = [observed EXCEPT ![j] = Append(@, seen)]
           /\ registry' = IF seen \in {"SUCCESS", "FAILURE"}
                          THEN [registry EXCEPT ![j] = Pending]
                          ELSE registry
    /\ UNCHANGED <<clients, pc, disk, attempt, uploadLog, waits,
                   uploadUrl, submitLog, pollAttempt, pollRequests, pollSlept,
                   lastPoll, provResult, feedback, exc, retval,
                   queue, started, calc>>

\* A caller polls the status of an id; it notes each change of status.
Query(j) ==
    /\ LET seen == StatusResponse(j).status
       IN  /\ IF observed[j] = <<>> THEN TRUE
              ELSE observed[j][Len(observed[j])] # seen
           /\ observed' = [observed EXCEPT ![j] = Append(@, seen)]
    /\ UNCHANGED <<clients, pc, disk, registry, attempt, uploadLog, waits,
                   uploadUrl, submitLog, pollAttempt, pollRequests, pollSlept,
                   lastPoll, provResult, feedback, exc, retval,
                   queue, started, calc>>

\* -------------------------------------------------------------------- Next
Next ==
    \/ \E j \in Jobs, post \in Posts : Receive(j, post)
    \/ \E j \in Jobs : Claim(j)
    \/ \E j \in Jobs, o \in UploadOutcomes : UploadStep(j, o)
    \/ \E j \in Jobs, o \in SubmitOutcomes : SubmitStep(j, o)
    \/ \E j \in Jobs, o \in PollOutcomes : PollStep(j, o)
    \/ \E j \in Jobs : PollExhausted(j)
    \/ \E j \in Jobs : ParseStep(j)
    \/ \E j \in Jobs : AnalyzeStep(j)
    \/ \E j \in Jobs, generated \in BOOLEAN : FeedbackStep(j, generated)
    \/ \E j \in Jobs : BuildStep(j)
    \/ \E j \in Jobs : Finally(j)
    \/ \E j \in Jobs : Publish(j)
    \/ \E j \in Jobs : Query(j)

Spec == Init /\ [][Next]_vars

\* ------------------------------------------------------- concurrent jobs
\* Two clients post and their tasks run on different workers, interleaved in
\* any way. The provider answers every status request with a final status,
\* so that a task sends one status request.
ConcurrentUploadOutcomes ==
    {Response(200, "upload_url", ""), Response(401, "", "unauthorized"),
     Failure("ReadError", "eof")}

ConcurrentSubmitOutcomes ==
    {Response(200, "id", ""), Response(500, "", "server error")}

ConcurrentPollOutcomes ==
    {Response(200, "completed", "full"),
     Response(200, "completed", "null_confidence"),
     Response(200, "error", "bad audio")}

\* which two clients post is free
InitConcurrent ==
    /\ clients \in {c \in SUBSET Jobs : Cardinality(c) = 2}
    /\ InitJob
    /\ calc = NoCall

NextConcurrent ==
    \/ \E j \in Jobs, post \in Posts : Receive(j, post)
    \/ \E j \in Jobs : Claim(j)
    \/ \E j \in Jobs, o \in ConcurrentUploadOutcomes : UploadStep(j, o)
    \/ \E j \in Jobs, o \in ConcurrentSubmitOutcomes : SubmitStep(j, o)
    \/ \E j \in Jobs, o \in ConcurrentPollOutcomes : PollStep(j, o)
    \/ \E j \in Jobs : ParseStep(j)
    \/ \E j \in Jobs : AnalyzeStep(j)
    \/ \E j \in Jobs, generated \in BOOLEAN : FeedbackStep(j, generated)
    \/ \E j \in Jobs : BuildStep(j)
    \/ \E j \in Jobs : Finally(j)
    \/ \E j \in Jobs : Publish(j)
    \/ \E j \in Jobs : Query(j)

SpecConcurrent == InitConcurrent /\ [][NextConcurrent]_vars

\* ================================================== the analysis functions
\* The functions below are applied to inputs of their own, outside a task.
\* Quantities are exact: a confidence is a number of hundredths, a time a
\* number of milliseconds.
PRONUNCIATION_THRESHOLD == 85
SLOW_WPM_THRESHOLD == 90
FAST_WPM_THRESHOLD == 150
PAUSE_THRESHOLD == 500

MaxWords == 3
MaxPauseWords == 6

\* the variables of the task pipeline, which a call of a function leaves alone
pipeline == <<clients, pc, disk, registry, attempt, uploadLog, waits, uploadUrl,
              submitLog, pollAttempt, pollRequests, pollSlept, lastPoll,
              provResult, feedback, exc, retval, observed, queue, started>>

\* Python's round(num / den) for den > 0: the nearest integer, a tie going to
\* the even one
Round(num, den) ==
    LET q == num \div den
        r == num % den
    IN  IF 2 * r < den THEN q
        ELSE IF 2 * r > den THEN q + 1
        ELSE IF q % 2 = 0 THEN q ELSE q + 1

RECURSIVE Sum(_)
Sum(numbers) ==
    IF numbers = <<>> THEN 0 ELSE Head(numbers) + Sum(Tail(numbers))

\* ---------------------------------------------------- analyze_pronunciation
\* Variant: a word at the threshold is reported too.
MispronouncedInclusive(word) == word.confidence <= PRONUNCIATION_THRESHOLD

\* if word["confidence"] < self.threshold
Mispronounced(word) == word.confidence < PRONUNCIATION_THRESHOLD

\* the loop over the words that appends the reported ones
RECURSIVE MispronouncedWords(_)
MispronouncedWords(words) ==
    IF words = <<>> THEN <<>>
    ELSE LET word == Head(words)
             rest == MispronouncedWords(Tail(words))
         IN  IF Mispronounced(word)
             THEN <<[word |-> word.word, start |-> word.start,
                     confidence |-> word.confidence]>> \o rest
             ELSE rest

AnalyzePronunciation(words) ==
    IF words = <<>>
    THEN [pronunciation_score |-> 0, mispronounced_words |-> <<>>]
    ELSE LET total_confidence ==
                 Sum([i \in 1..Len(words) |-> words[i].confidence])
         IN  [pronunciation_score |-> Round(total_confidence, Len(words)),
              mispronounced_words |-> MispronouncedWords(words)]

\* ----------------------------------------------------------- analyze_pacing
\* Variant: a pace at the upper threshold counts as too fast.
PacingFeedbackInclusive(wpm) ==
    IF wpm < SLOW_WPM_THRESHOLD
    THEN "Your speaking pace is too slow. Try to speak a bit faster."
    ELSE IF wpm >= FAST_WPM_THRESHOLD
    THEN "Your speaking pace is too fast. Try to slow down a bit."
    ELSE "Your speaking pace is appropriate."

PacingFeedback(wpm) ==
    IF wpm < SLOW_WPM_THRESHOLD
    THEN "Your speaking pace is too slow. Try to speak a bit faster."
    ELSE IF wpm > FAST_WPM_THRESHOLD
    THEN "Your speaking pace is too fast. Try to slow down a bit."
    ELSE "Your speaking pace is appropriate."

\* audio_duration in milliseconds; total_words / (audio_duration / 60.0)
AnalyzePacing(words, audio_duration) ==
    IF words = <<>> \/ audio_duration = 0
    THEN [pacing_wpm |-> 0, pacing_feedback |-> "Unable to calculate pacing.",
          raised |-> NoExc]
    ELSE LET total_words == Len(words)
             wpm == Round(total_words * 60000, audio_duration)
         IN  [pacing_wpm |-> wpm, pacing_feedback |-> PacingFeedback(wpm),
              raised |-> NoExc]

\* ----------------------------------------------------------- analyze_pauses
\* Variant: the size of the gap is compared, whatever its sign.
IsPauseMagnitude(pause_duration) ==
    (IF pause_duration < 0 THEN -pause_duration ELSE pause_duration)
        > PAUSE_THRESHOLD

\* Variant: a gap equal to the threshold counts as a pause.
IsPauseInclusive(pause_duration) == pause_duration >= PAUSE_THRESHOLD

\* if pause_duration > self.pause_threshold
IsPause(pause_duration) == pause_duration > PAUSE_THRESHOLD

\* the list `pauses` after the loop has handled words[i .. len-1], 1-based i
RECURSIVE Pauses(_, _)
Pauses(words, i) ==
    IF i > Len(words) THEN <<>>
    ELSE LET pause_duration == words[i].start - words[i - 1].end
         IN  IF IsPause(pause_duration)
             THEN <<pause_duration>> \o Pauses(words, i + 1)
             ELSE Pauses(words, i + 1)

PauseFeedback(pause_count) ==
    IF pause_count = 0
    THEN "Great! Your speech flows smoothly without long pauses."
    ELSE IF pause_count <= 2 THEN "Good fluency with minimal pauses."
    ELSE IF pause_count <= 4
    THEN "Try to reduce long pauses to improve fluency."
    ELSE "Your speech has many long pauses. Practice speaking more continuously."

\* total_pause_time_sec is round(total, 2): a number of hundredths of a second
AnalyzePauses(words) ==
    IF Len(words) < 2
    THEN [pause_count |-> 0, total_pause_time_sec |-> 0,
          pause_feedback |-> "Insufficient data for pause analysis.",
          raised |-> NoExc]
    ELSE LET pauses == Pauses(words, 2)
         IN  [pause_count |-> Len(pauses),
              total_pause_time_sec |-> Round(Sum(pauses), 10),
              pause_feedback |-> PauseFeedback(Len(pauses)),
              raised |-> NoExc]

\* ------------------------------------------- upload_file: the content type
audio_mime_types ==
    [e \in {".mp3", ".wav", ".flac", ".ogg", ".m4a"} |->
        CASE e = ".mp3" -> "audio/mpeg"
          [] e = ".wav" -> "audio/wav"
          [] e = ".flac" -> "audio/flac"
          [] e = ".ogg" -> "audio/ogg"
          [] e = ".m4a" -> "audio/mp4"]

\* self.audio_mime_types.get(file_extension, mime_type)
EffectiveMimeType(file_extension, mime_type) ==
    IF file_extension \in DOMAIN audio_mime_types
    THEN audio_mime_types[file_extension]
    ELSE mime_type

\* files_payload = {"file": (basename, f, mime_type)}: the type that is sent
FilesPayloadType(file_extension, mime_type) == mime_type

\* ------------------------------------------------ parse_transcription_result
\* A provider time is a whole number of milliseconds. The analysis functions
\* above hold a time of s seconds as the number 1000 * s; here the value of
\* ms / 1000.0 is kept as its whole seconds and its thousandths.
\* Variant: the division drops the fraction (ms // 1000).
ToSecondsWhole(ms) == [sec |-> ms \div 1000, thousandths |-> 0]

\* ms / 1000.0
ToSeconds(ms) == [sec |-> ms \div 1000, thousandths |-> ms % 1000]

\* result.get(key, default)
Get(result, key, default) ==
    IF key \in DOMAIN result THEN result[key] ELSE default

\* The words are converted first; result["text"] is read afterwards and
\* raises KeyError when the result has no such field.
ParseTranscriptionResult(result) ==
    LET provided == Get(result, "words", <<>>)
        words == [i \in 1..Len(provided) |->
                     [word |-> provided[i].text,
                      start |-> ToSeconds(provided[i].start),
                      end |-> ToSeconds(provided[i].end),
                      confidence |-> provided[i].confidence]]
    IN  IF "text" \notin DOMAIN result
        THEN [raised |-> [type |-> "KeyError", msg |-> <<"text">>]]
        ELSE [transcript |-> result["text"],
              words |-> words,
              audio_duration_sec |-> ToSeconds(Get(result, "audio_duration", 0)),
              raised |-> NoExc]

\* ------------------------------------------------- the inputs of the calls
WordTexts == {"the", "cat"}

Confidences == {0, 84, 85, 86, 100}

\* words spoken one a second, each with a text and a confidence of its own
Scored(f) ==
    [i \in 1..Len(f) |->
        [word |-> f[i][1], start |-> (i - 1) * 1000,
         end |-> (i - 1) * 1000 + 400, confidence |-> f[i][2]]]

\* the texts and confidences of up to MaxWords words
PronunciationInputs ==
    UNION {[1..n -> WordTexts \X Confidences] : n \in 0..MaxWords}

\* n words whose texts and scores do not matter
Plain(n) == Scored([i \in 1..n |-> <<"the", 100>>])

\* milliseconds; 0 is what parse_transcription_result gives for a result
\* without audio_duration
Durations == {0, 400, 800, 1192, 1200, 1333, 2000, 2022, 24000, 40000, 60000}

\* the gaps between one word's end and the next word's start, in milliseconds;
\* the provider may report overlapping words (-200) and words out of order
\* (-800: the next word starts before this one started)
Gaps == {-800, -200, 500, 501, 1500}

RECURSIVE StartOf(_, _)
StartOf(gaps, i) ==
    IF i = 1 THEN 0 ELSE StartOf(gaps, i - 1) + 300 + gaps[i - 1]

\* Len(gaps) + 1 words of 300 ms with the given gaps between them
Spoken(gaps) ==
    [i \in 1..(Len(gaps) + 1) |->
        [word |-> "the", start |-> StartOf(gaps, i),
         end |-> StartOf(gaps, i) + 300, confidence |-> 100]]

\* the gaps of 1 to MaxPauseWords words; no words at all is a case of its own
PauseInputs == UNION {[1..n -> Gaps] : n \in 0..(MaxPauseWords - 1)}

\* words as the provider reports them, from their texts and start times in
\* milliseconds
ProviderWords(f) ==
    [i \in 1..Len(f) |->
        [text |-> f[i][1], start |-> f[i][2], end |-> f[i][2] + 350,
         confidence |-> 85]]

ProviderWordSeqs == UNION {[1..n -> WordTexts \X {0, 1250}] : n \in 0..MaxWords}

ProviderDurations == {0, 2750}

\* the fields a completed provider result has
ProviderShapes == {"full", "no_duration", "no_text", "no_words"}

\* a completed provider result: with every field, without audio_duration,
\* without text, without words
ProviderResult(shape, f, d) ==
    IF shape = "full"
    THEN [text |-> "the cat", words |-> ProviderWords(f), audio_duration |-> d]
    ELSE IF shape = "no_duration"
    THEN [text |-> "the cat", words |-> ProviderWords(f)]
    ELSE IF shape = "no_text"
    THEN [words |-> ProviderWords(f), audio_duration |-> d]
    ELSE [text |-> "the cat", audio_duration |-> d]

Extensions == {".mp3", ".wav", ".flac", ".ogg", ".m4a", ".aac"}

\* what mimetypes.guess_type gives for a file name
GuessedTypes == {"audio/mpeg", "audio/wav", "audio/x-wav", "audio/aac"}

\* ------------------------------------------------------------- the calls
\* calc records one call: the function, its arguments and what it returned.
CallPronunciation(words) ==
    /\ calc = NoCall
    /\ calc' = [fn |-> "analyze_pronunciation", words |-> words,
                result |-> AnalyzePronunciation(words)]
    /\ UNCHANGED pipeline

CallPacing(words, audio_duration) ==
    /\ calc = NoCall
    /\ calc' = [fn |-> "analyze_pacing", words |-> words,
                audio_duration |-> audio_duration,
                result |-> AnalyzePacing(words, audio_duration)]
    /\ UNCHANGED pipeline

CallPauses(words) ==
    /\ calc = NoCall
    /\ calc' = [fn |-> "analyze_pauses", words |-> words,
                result |-> AnalyzePauses(words)]
    /\ UNCHANGED pipeline

CallParse(result) ==
    /\ calc = NoCall
    /\ calc' = [fn |-> "parse_transcription_result", provider |-> result,
                result |-> ParseTranscriptionResult(result)]
    /\ UNCHANGED pipeline

\* upload_file up to the request it sends
CallUploadFile(file_extension, mime_type) ==
    /\ calc = NoCall
    /\ calc' = [fn |-> "upload_file", file_extension |-> file_extension,
                mime_type |-> mime_type,
                effective_mime_type |->
                    EffectiveMimeType(file_extension, mime_type),
                sent |-> FilesPayloadType(file_extension, mime_type)]
    /\ UNCHANGED pipeline

NextPure ==
    \/ \E f \in PronunciationInputs : CallPronunciation(Scored(f))
    \/ \E n \in 0..MaxWords, d \in Durations : CallPacing(Plain(n), d)
    \/ \E gaps \in PauseInputs : CallPauses(Spoken(gaps))
    \/ CallPauses(<<>>)
    \/ \E e \in Extensions, m \in GuessedTypes : CallUploadFile(e, m)
    \/ \E shape \in ProviderShapes, f \in ProviderWordSeqs,
          d \in ProviderDurations : CallParse(ProviderResult(shape, f, d))

\* the service as it starts, before any client has posted
InitPure ==
    /\ clients = {}
    /\ InitJob
    /\ calc = NoCall

SpecPure == InitPure /\ [][NextPure]_vars

\* ================================================================== claims
Terminal(j) == registry[j].state \in {"SUCCESS", "FAILURE"}

\* the task body of job j has been entered and Celery has not stored its outcome
Executing(j) ==
    pc[j] \in {"upload", "submit", "poll", "parse", "analyze", "feedback",
               "build", "finally", "returned"}

\* the task body of job j is over: an exception is propagating or stored
Ended(j) == pc[j] \in {"finally", "returned", "done"}

\* C1: once the backend holds SUCCESS or FAILURE for a job, the job's audio
\* file is no longer in the upload directory, whichever stage ended the task.
C1_ArtifactDeletedAtTerminal ==
    \A j \in Jobs : Terminal(j) => j \notin disk

\* a job that failed in the middle of the pipeline (while polling) and one
\* can see that its file is gone
C1_Witness ==
    \E j \in Jobs :
        /\ registry[j].state = "FAILURE"
        /\ pollRequests[j] > 0
        /\ j \notin disk

\* C2 as claimed: a poller sees only Pending, then Running, then one terminal
\* state, in this order, and a job a worker has claimed shows as Running
\* (PROGRESS) until its terminal state is stored.
ForwardPaths ==
    {<<>>, <<"PENDING">>, <<"PROGRESS">>, <<"SUCCESS">>, <<"FAILURE">>,
     <<"PENDING", "PROGRESS">>, <<"PENDING", "SUCCESS">>,
     <<"PENDING", "FAILURE">>, <<"PROGRESS", "SUCCESS">>,
     <<"PROGRESS", "FAILURE">>, <<"PENDING", "PROGRESS", "SUCCESS">>,
     <<"PENDING", "PROGRESS", "FAILURE">>}

C2_AsClaimed ==
    \A j \in Jobs :
        /\ observed[j] \in ForwardPaths
        /\ Executing(j) => StatusResponse(j).status = "PROGRESS"

\* ---------------------------------------------------------- upload claims
\* the upload attempts of job j so far
Attempts(j) == Len(uploadLog[j])

\* attempt i of job j failed with the network read failure the retry is for
ReadFailure(j, i) == uploadLog[j][i].kind = "ReadError"

\* attempt i of job j was answered with a reference
Uploaded(j, i) ==
    /\ uploadLog[j][i].kind = "response"
    /\ uploadLog[j][i].status \in {200, 201}
    /\ uploadLog[j][i].body = "upload_url"

\* the waits 1, 2, ..., 2^(k-1) after failed attempts 0 .. k-1
Backoff(k) == [i \in 1..k |-> 2 ^ (i - 1)]

\* C3: when the first k < 3 attempts fail with a network read failure and
\* attempt k+1 succeeds, upload_file_with_retry has returned the reference of
\* attempt k+1, no further attempt is made, and it slept 2^i seconds after
\* failed attempt i (i from 0): 1s then 2s for k = 2.
C3_RetryThenSuccess ==
    \A j \in Jobs :
        \A k \in 0..2 :
            ( /\ Attempts(j) > k
              /\ \A i \in 1..k : ReadFailure(j, i)
              /\ Uploaded(j, k + 1) )
            => /\ Attempts(j) = k + 1
               /\ pc[j] # "upload"
               /\ uploadUrl[j] = k + 1
               /\ waits[j] = Backoff(k)
               /\ (k = 2 => waits[j] = <<1, 2>>)

\* two read failures, then the third attempt returned its reference
C3_Witness ==
    \E j \in Jobs :
        /\ Attempts(j) = 3
        /\ ReadFailure(j, 1) /\ ReadFailure(j, 2) /\ Uploaded(j, 3)
        /\ uploadUrl[j] = 3
        /\ pc[j] = "submit"

\* C4: when all 3 attempts fail with a network read failure, there are
\* exactly 3 attempts and exactly the waits 1s, 2s (none after the last
\* failure), the task body ends with the upload-exhausted error whose message
\* carries the last attempt's error, nothing is submitted, and the job's
\* terminal state is FAILURE with that error, its file deleted.
C4_UploadExhausted ==
    \A j \in Jobs :
        /\ Attempts(j) <= 3
        /\ ( /\ Attempts(j) = 3
             /\ \A i \in 1..3 : ReadFailure(j, i) )
           => /\ waits[j] = <<1, 2>>
              /\ Ended(j)
              /\ exc[j] = [type |-> "Exception",
                           msg |-> <<"File upload failed after 3 attempts",
                                     uploadLog[j][3].detail>>]
              /\ submitLog[j] = <<>>
              /\ registry[j].state # "SUCCESS"
              /\ (pc[j] = "done" =>
                    /\ registry[j].state = "FAILURE"
                    /\ registry[j].error = exc[j]
                    /\ j \notin disk)

\* three read failures whose details differ, the job stored as failed
C4_Witness ==
    \E j \in Jobs :
        /\ Attempts(j) = 3
        /\ \A i \in 1..3 : ReadFailure(j, i)
        /\ uploadLog[j][2].detail # uploadLog[j][3].detail
        /\ registry[j].state = "FAILURE"

\* the failures of an attempt that C5 lists: 401, 413, 429, another non-2xx
\* status, a 2xx answer without upload_url, a timeout
Definitive(o) ==
    \/ o.kind = "TimeoutException"
    \/ o.kind = "response" /\ o.status \notin {200, 201}
    \/ o.kind = "response" /\ o.status \in {200, 201} /\ o.body # "upload_url"

\* the message the code gives each of them
DefinitiveMessage(o) ==
    IF o.kind = "TimeoutException" THEN <<"Upload timeout">>
    ELSE IF o.status = 401 THEN <<"File upload error", "Invalid AssemblyAI API key">>
    ELSE IF o.status = 413 THEN <<"File upload error", "File too large for AssemblyAI">>
    ELSE IF o.status = 429 THEN <<"File upload error", "Rate limit exceeded">>
    ELSE IF o.status \notin {200, 201}
         THEN <<"File upload error", "Upload failed", o.detail>>
    ELSE <<"File upload error", "No upload URL returned">>

\* C5: an attempt that fails with one of these kinds is the last attempt,
\* whatever its number: upload_file_with_retry is over with that error, which
\* is not the upload-exhausted error, nothing was slept after it, and nothing
\* is submitted.
C5_DefinitiveFailsAtOnce ==
    \A j \in Jobs :
        \A i \in 1..Attempts(j) :
            Definitive(uploadLog[j][i])
            => /\ Attempts(j) = i
               /\ Len(waits[j]) = i - 1
               /\ Ended(j)
               /\ exc[j].msg = DefinitiveMessage(uploadLog[j][i])
               /\ exc[j].msg[1] # "File upload failed after 3 attempts"
               /\ uploadUrl[j] = 0
               /\ submitLog[j] = <<>>

\* a rate-limit answer to the second attempt, after one retried failure
C5_Witness ==
    \E j \in Jobs :
        /\ Attempts(j) = 2
        /\ ReadFailure(j, 1)
        /\ uploadLog[j][2].status = 429
        /\ registry[j].state = "FAILURE"

\* a transient network-level failure: a connection or a read failure
TransientNetwork(o) == o.kind \in {"ConnectError", "ReadError"}

\* C6 as claimed: every transient network-level failure of an attempt is
\* retried after a backoff while attempts remain, and is escalated as
\* upload-exhausted only on the last attempt.
C6_AsClaimed ==
    \A j \in Jobs :
        \A i \in 1..Attempts(j) :
            TransientNetwork(uploadLog[j][i])
            => IF i < 3
               THEN /\ Len(waits[j]) >= i
                    /\ pc[j] = "upload" \/ Attempts(j) > i
               ELSE exc[j].msg[1] = "File upload failed after 3 attempts"

\* ------------------------------------------------------------ poll claims
PollFailure(text) ==
    [type |-> "Exception", msg |-> <<"Transcription process failed">> \o text]

TimedOut == PollFailure(<<"Transcription timeout - process took too long">>)

\* C7: at most 60 status requests are sent for a transcript. A completed
\* answer to the 60th request (the 59 before it were queued/processing) is
\* returned as the result; after 60 queued/processing answers the operation
\* has either not yet left the loop test or failed with the transcription
\* timeout, and the timeout is raised in no other case.
C7_PollBudget ==
    \A j \in Jobs :
        /\ pollRequests[j] <= 60
        /\ ( pollRequests[j] = 60 /\ lastPoll[j].body = "completed" )
           => /\ pollAttempt[j] = 59
              /\ pc[j] # "poll"
              /\ provResult[j] = lastPoll[j].detail
              /\ exc[j].msg = <<>> \/ exc[j].msg[1] # "Transcription process failed"
        /\ ( pollRequests[j] = 60 /\ lastPoll[j].body \in {"queued", "processing"} )
           => /\ pollAttempt[j] = 60
              /\ pc[j] = "poll" \/ (Ended(j) /\ exc[j] = TimedOut)
        /\ exc[j] = TimedOut
           => /\ pollRequests[j] = 60
              /\ lastPoll[j].body \in {"queued", "processing"}

\* the 60th request was answered completed and the job succeeded
C7_Witness ==
    \E j \in Jobs :
        /\ pollRequests[j] = 60
        /\ lastPoll[j].body = "completed"
        /\ registry[j].state = "SUCCESS"

\* C8: what follows a 200 answer to a status request. completed: the
\* operation has returned that result and sends nothing more. error: it has
\* failed with the transcription-failed error carrying the provider's detail.
\* queued and processing alike: one second slept and one attempt consumed
\* per answer, and the loop goes on (until the budget ends it). Any other
\* status: it has failed with the unknown-status error naming the status.
C8_PollStatusHandling ==
    \A j \in Jobs :
        ( lastPoll[j].kind = "response" /\ lastPoll[j].status = 200 )
        => LET st == lastPoll[j].body
           IN  IF st = "completed"
               THEN /\ provResult[j] = lastPoll[j].detail
                    /\ pc[j] # "poll"
                    /\ pollAttempt[j] = pollRequests[j] - 1
                    /\ exc[j].msg = <<>> \/ exc[j].msg[1] # "Transcription process failed"
               ELSE IF st = "error"
               THEN /\ Ended(j)
                    /\ exc[j] = PollFailure(<<"Transcription failed", lastPoll[j].detail>>)
               ELSE IF st \in {"queued", "processing"}
               THEN /\ pollAttempt[j] = pollRequests[j]
                    /\ pollSlept[j] = pollRequests[j]
                    /\ pc[j] = "poll" \/ (pollAttempt[j] = 60 /\ exc[j] = TimedOut)
               ELSE /\ Ended(j)
                    /\ exc[j] = PollFailure(<<"Polling error", "Unknown status", st>>)

\* a queued answer, then a provider error whose detail reached the backend
C8_Witness ==
    \E j \in Jobs :
        /\ pollRequests[j] = 2
        /\ lastPoll[j].body = "error"
        /\ registry[j].state = "FAILURE"
        /\ InMessage("too short", registry[j].error)

\* C9: a status request answered with a non-200 status, a timeout or a
\* transport error is the last one: the operation has failed, the request
\* consumed no attempt and no sleep, and the job cannot succeed.
C9_PollTransportFatal ==
    \A j \in Jobs :
        ( \/ lastPoll[j].kind \in {"TimeoutException", "ReadError"}
          \/ lastPoll[j].kind = "response" /\ lastPoll[j].status # 200 )
        => /\ Ended(j)
           /\ exc[j].msg # <<>>
           /\ exc[j].msg[1] = "Transcription process failed"
           /\ exc[j] # TimedOut
           /\ pollAttempt[j] = pollRequests[j] - 1
           /\ pollSlept[j] = pollRequests[j] - 1
           /\ registry[j].state # "SUCCESS"

\* the third status request timed out and the job is stored as failed
C9_Witness ==
    \E j \in Jobs :
        /\ pollRequests[j] = 3
        /\ lastPoll[j].kind = "TimeoutException"
        /\ registry[j].state = "FAILURE"

\* C10: a job sends at most one submission, with the reference the upload
\* returned; when its answer is not 200 or has no transcript id, the task
\* body is over with an error, no status request is ever sent and the job
\* cannot succeed.
C10_SingleSubmission ==
    \A j \in Jobs :
        /\ Len(submitLog[j]) <= 1
        /\ \A i \in 1..Len(submitLog[j]) :
               LET s == submitLog[j][i]
               IN  /\ s.audio_url = uploadUrl[j]
                   /\ s.audio_url > 0
                   /\ ( s.outcome.kind = "response"
                        /\ (s.outcome.status # 200 \/ s.outcome.body # "id") )
                      => /\ Ended(j)
                         /\ exc[j].msg # <<>>
                         /\ exc[j].msg[1] = "Transcription process failed"
                         /\ pollRequests[j] = 0
                         /\ registry[j].state # "SUCCESS"

\* a 200 answer without a transcript id, the job stored as failed
C10_Witness ==
    \E j \in Jobs :
        /\ Len(submitLog[j]) = 1
        /\ submitLog[j][1].outcome.status = 200
        /\ submitLog[j][1].outcome.body = "no_id"
        /\ registry[j].state = "FAILURE"

\* ------------------------------------------------------ orchestrator claims
\* The transport result that ended the pipeline of a job that failed before
\* it had a transcript: the last upload attempt, the submission, or the last
\* status request.
Cause(j) ==
    IF uploadUrl[j] = 0 THEN uploadLog[j][Len(uploadLog[j])]
    ELSE IF pollRequests[j] = 0 THEN submitLog[j][1].outcome
    ELSE lastPoll[j]

FailedInTransport(j) ==
    /\ registry[j].state = "FAILURE"
    /\ provResult[j] = ""
    /\ uploadLog[j] # <<>>

\* no stage runs once an exception propagates, and the job is run once
NeverRerun(j) ==
    /\ exc[j] # NoExc => (Ended(j) /\ registry[j].state # "SUCCESS")
    /\ registry[j].state = "FAILURE" => (pc[j] = "done" /\ registry[j].error = exc[j])
    /\ started[j] <= 1
    /\ Attempts(j) <= 3
    /\ Len(submitLog[j]) <= 1

\* the HTTP results whose own text the code replaces by a fixed message
Replaced(j, o) ==
    \/ o.kind = "TimeoutException"
    \/ uploadUrl[j] = 0 /\ o.kind = "response" /\ o.status \in {401, 413, 429}

FixedMessages ==
    {<<"Upload timeout">>,
     <<"Timeout when submitting transcription job.">>,
     <<"Transcription process failed", "Polling timeout">>,
     <<"File upload error", "Invalid AssemblyAI API key">>,
     <<"File upload error", "File too large for AssemblyAI">>,
     <<"File upload error", "Rate limit exceeded">>}

\* C11 as claimed: the error stored for a failed job contains the text of
\* the underlying error and every detail the provider supplied, whatever
\* wraps it, and nothing is run again after a failure.
C11_AsClaimed ==
    \A j \in Jobs :
        /\ NeverRerun(j)
        /\ FailedInTransport(j)
           => /\ Cause(j).detail # "" => InMessage(Cause(j).detail, registry[j].error)
              /\ lastPoll[j].body = "paused" => InMessage("paused", registry[j].error)

\* C11 amended: the same, except that a timeout of an HTTP call and a 401,
\* 413 or 429 answer to the upload are stored as the fixed message the code
\* gives them, without the text of the httpx error or of the response.
C11_ErrorRecorded ==
    \A j \in Jobs :
        /\ NeverRerun(j)
        /\ FailedInTransport(j)
           => IF Replaced(j, Cause(j))
              THEN registry[j].error.msg \in FixedMessages
              ELSE /\ Cause(j).detail # ""
                      => InMessage(Cause(j).detail, registry[j].error)
                   /\ lastPoll[j].body = "paused"
                      => InMessage("paused", registry[j].error)

\* a 500 answer to a status request, stored with the response text under two
\* layers of wrapping
C11_Witness ==
    \E j \in Jobs :
        /\ registry[j].state = "FAILURE"
        /\ lastPoll[j].status = 500
        /\ registry[j].error.msg = <<"Transcription process failed",
                                     "Polling error", "Polling failed",
                                     "server error">>

\* C12: when the generative-text call fails, generate_feedback returns the
\* fixed fallback string and the pipeline goes on: the job ends SUCCESS with
\* the metrics computed from the transcript and the fallback as its feedback
\* text. No exception comes out of the feedback stage: a job whose feedback
\* call was made fails only when building the response fails.
C12_FeedbackFallback ==
    \A j \in Jobs :
        /\ pc[j] \in {"build", "finally", "returned", "done"} /\ provResult[j] # ""
           /\ exc[j].type \notin {"KeyError", "TypeError"}
           => /\ feedback[j] \in {Fallback, "generated text"}
              /\ exc[j] # NoExc => exc[j].type = "ValidationError"
        /\ feedback[j] = Fallback
           => /\ Fallback =
                   "Could not generate detailed feedback at this moment. Please try again later."
              /\ registry[j].state = "FAILURE" => provResult[j] = "null_text"
              /\ pc[j] = "done" /\ provResult[j] # "null_text"
                 => /\ registry[j].state = "SUCCESS"
                    /\ registry[j].result.text_feedback = Fallback
                    /\ registry[j].result.metrics = provResult[j]
                    /\ registry[j].result.transcription = provResult[j]

\* a succeeded job whose feedback text is the fallback
C12_Witness ==
    \E j \in Jobs :
        /\ registry[j].state = "SUCCESS"
        /\ registry[j].result.text_feedback = Fallback
        /\ registry[j].result.metrics = "full"

\* ------------------------------------------------------------- termination
\* A step of the task of job j: every HTTP call returns or times out, so the
\* worker that runs the task takes its next step.
TaskStep(j) ==
    \/ \E o \in UploadOutcomes : UploadStep(j, o)
    \/ \E o \in SubmitOutcomes : SubmitStep(j, o)
    \/ \E o \in PollOutcomes : PollStep(j, o)
    \/ PollExhausted(j)
    \/ ParseStep(j)
    \/ AnalyzeStep(j)
    \/ \E generated \in BOOLEAN : FeedbackStep(j, generated)
    \/ BuildStep(j)
    \/ Finally(j)
    \/ Publish(j)

FairSpec == Spec /\ \A j \in Jobs : WF_vars(TaskStep(j))

\* C13: a job a worker has claimed reaches SUCCESS or FAILURE, and on the
\* way it makes at most 3 upload attempts, 1 submission and 60 status
\* requests.
C13_Terminates ==
    /\ \A j \in Jobs : (started[j] > 0) ~> Terminal(j)
    /\ [](\A j \in Jobs : /\ Attempts(j) <= 3
                          /\ Len(submitLog[j]) <= 1
                          /\ pollRequests[j] <= 60)

\* a job that used its whole poll budget and reached its terminal state
C13_Witness ==
    \E j \in Jobs :
        /\ Terminal(j)
        /\ Attempts(j) = 3
        /\ pollRequests[j] = 60

C15_DeliveredOnce ==
    \A j \in Jobs :
        /\ started[j] <= 1
        /\ queue[j] + started[j] <= 1
        /\ (Executing(j) \/ Terminal(j)) => (started[j] = 1 /\ queue[j] = 0)

\* a job that was delivered, ran to its end and has its outcome stored
C15_Witness ==
    \E j \in Jobs : Terminal(j) /\ started[j] = 1 /\ queue[j] = 0

\* ---------------------------------------------------------- unknown id claim
NeverSubmitted(j) == queue[j] = 0 /\ started[j] = 0

Unclaimed(j) == queue[j] > 0 /\ started[j] = 0

PendingAnswer ==
    [status |-> "PENDING", message |-> "Task is pending or not found",
     result |-> NoResult]

\* C16: the status query for an id no request has enqueued answers PENDING
\* ("pending or not found"), not an error, and the answer is equal to the
\* answer for an enqueued job no worker has claimed.
C16_UnknownIdPending ==
    /\ \A j \in Jobs :
          (NeverSubmitted(j) \/ Unclaimed(j)) => StatusResponse(j) = PendingAnswer
    /\ \A j, k \in Jobs :
          (NeverSubmitted(j) /\ Unclaimed(k)) => StatusResponse(j) = StatusResponse(k)

\* the id of a client that never posts and the id of an enqueued, unclaimed
\* job have both been queried
C16_Witness ==
    \E j, k \in Jobs :
        /\ j \notin clients /\ NeverSubmitted(j) /\ observed[j] = <<"PENDING">>
        /\ Unclaimed(k) /\ observed[k] = <<"PENDING">>

\* ================================================ claims on the functions
\* C17 as claimed: the type sent with the file is the table's entry for the
\* file's extension when the table has one, and the caller's guess otherwise.
C17_AsClaimed ==
    calc.fn = "upload_file" =>
        calc.sent = IF calc.file_extension \in {".mp3", ".wav", ".flac", ".ogg", ".m4a"}
                    THEN audio_mime_types[calc.file_extension]
                    ELSE calc.mime_type

\* the positions of the words below the threshold
Low(words) ==
    {i \in 1..Len(words) : words[i].confidence < PRONUNCIATION_THRESHOLD}

\* the k-th smallest member of a set of positions
Kth(positions, k) ==
    CHOOSE i \in positions : Cardinality({m \in positions : m < i}) = k - 1

\* C18: the score is an integer from 0 to 100, 0 with an empty report for no
\* words; the report holds exactly the words whose confidence is strictly
\* below the threshold, in their order, each with its word, start and
\* confidence.
C18_Pronunciation ==
    calc.fn = "analyze_pronunciation" =>
        LET words == calc.words
            report == calc.result.mispronounced_words
        IN  /\ calc.result.pronunciation_score \in 0..100
            /\ words = <<>> =>
                  /\ calc.result.pronunciation_score = 0
                  /\ report = <<>>
            /\ Len(report) = Cardinality(Low(words))
            /\ \A k \in 1..Len(report) :
                  LET w == words[Kth(Low(words), k)]
                  IN  report[k] = [word |-> w.word, start |-> w.start,
                                   confidence |-> w.confidence]
            /\ \A i \in 1..Len(words) :
                  words[i].confidence = PRONUNCIATION_THRESHOLD =>
                      \A k \in 1..Len(report) : report[k].start # words[i].start

\* three words, the middle one exactly at the threshold, the others below:
\* the report holds the first and the third
C18_Witness ==
    /\ calc.fn = "analyze_pronunciation"
    /\ Len(calc.words) = 3
    /\ calc.words[1].confidence = 84
    /\ calc.words[2].confidence = PRONUNCIATION_THRESHOLD
    /\ calc.words[3].confidence = 0
    /\ Len(calc.result.mispronounced_words) = 2

\* C19: the pace is a non-negative integer; it is 0, and nothing is raised,
\* for a duration of 0 or for no words; otherwise the feedback is too slow
\* exactly below 90, too fast exactly above 150, and appropriate from 90 to
\* 150 inclusive.
C19_Pacing ==
    calc.fn = "analyze_pacing" =>
        LET wpm == calc.result.pacing_wpm
            said == calc.result.pacing_feedback
        IN  /\ wpm \in Nat
            /\ IF calc.audio_duration = 0 \/ calc.words = <<>>
               THEN wpm = 0 /\ calc.result.raised = NoExc
               ELSE /\ (said = "Your speaking pace is too slow. Try to speak a bit faster.")
                           <=> (wpm < 90)
                    /\ (said = "Your speaking pace is too fast. Try to slow down a bit.")
                           <=> (wpm > 150)
                    /\ (said = "Your speaking pace is appropriate.")
                           <=> (wpm \in 90..150)

\* three words in 1.2 s: 150 words a minute, the upper end of the appropriate
\* range
C19_Witness ==
    /\ calc.fn = "analyze_pacing"
    /\ Len(calc.words) = 3
    /\ calc.audio_duration = 1200
    /\ calc.result.pacing_wpm = 150
    /\ calc.result.pacing_feedback = "Your speaking pace is appropriate."

\* the adjacent pairs (i, i+1) whose gap is above the threshold
ExceedingPairs(words) ==
    {i \in 1..(Len(words) - 1) :
        words[i + 1].start - words[i].end > PAUSE_THRESHOLD}

\* the same words with everything after word i spoken d milliseconds later
Shifted(words, i, d) ==
    [k \in 1..Len(words) |->
        IF k > i
        THEN [words[k] EXCEPT !.start = @ + d, !.end = @ + d]
        ELSE words[k]]

Gap(words, i) == words[i + 1].start - words[i].end

\* the pairs whose second word starts before the first one ends
Overlapping(words) == {i \in 1..(Len(words) - 1) : Gap(words, i) < 0}

\* the same words with every negative gap closed: each word keeps its length
\* and starts where the word before it ends, or later by its positive gap
RECURSIVE ClampedStart(_, _)
ClampedStart(words, i) ==
    IF i = 1 THEN words[1].start
    ELSE ClampedStart(words, i - 1) + (words[i - 1].end - words[i - 1].start)
         + (IF Gap(words, i - 1) < 0 THEN 0 ELSE Gap(words, i - 1))

Clamped(words) ==
    [i \in 1..Len(words) |->
        [words[i] EXCEPT !.start = ClampedStart(words, i),
                         !.end = ClampedStart(words, i)
                                 + (words[i].end - words[i].start)]]

\* C21: for words that overlap or are out of order, no negative gap is
\* counted or added: the count and the total are those of the same words with
\* every negative gap closed to zero, no counted pair has a negative gap, and
\* the total is never negative.
C21_NoNegativePause ==
    calc.fn = "analyze_pauses" =>
        LET words == calc.words
        IN  /\ calc.result.total_pause_time_sec >= 0
            /\ calc.result.pause_count
                   <= Cardinality((1..(Len(words) - 1)) \ Overlapping(words))
            /\ calc.result.pause_count = AnalyzePauses(Clamped(words)).pause_count
            /\ calc.result.total_pause_time_sec
                   = AnalyzePauses(Clamped(words)).total_pause_time_sec

\* four words: one overlaps its predecessor, one starts before its
\* predecessor started, and the one real pause of 1.5 s is all that is reported
C21_Witness ==
    /\ calc.fn = "analyze_pauses"
    /\ Len(calc.words) = 4
    /\ \E i, k \in 1..3 : Gap(calc.words, i) = -200 /\ Gap(calc.words, k) = -800
    /\ calc.result.pause_count = 1
    /\ calc.result.total_pause_time_sec = 150

\* the number of milliseconds a converted time stands for
Millis(seconds) == seconds.sec * 1000 + seconds.thousandths

\* C22: for a provider result that has its text, the transcript has one word
\* per provider word, in the same order, with the provider's text and
\* confidence and with start, end and the overall duration equal in seconds
\* to the provider's milliseconds; without the duration field the duration
\* is 0 s; nothing is raised.
C22_Parse ==
    (calc.fn = "parse_transcription_result" /\ "text" \in DOMAIN calc.provider) =>
        LET given == IF "words" \in DOMAIN calc.provider
                     THEN calc.provider.words ELSE <<>>
            parsed == calc.result
        IN  /\ parsed.raised = NoExc
            /\ parsed.transcript = calc.provider.text
            /\ Len(parsed.words) = Len(given)
            /\ \A i \in 1..Len(given) :
                  /\ parsed.words[i].word = given[i].text
                  /\ parsed.words[i].confidence = given[i].confidence
                  /\ parsed.words[i].start.thousandths \in 0..999
                  /\ parsed.words[i].end.thousandths \in 0..999
                  /\ Millis(parsed.words[i].start) = given[i].start
                  /\ Millis(parsed.words[i].end) = given[i].end
            /\ parsed.audio_duration_sec.thousandths \in 0..999
            /\ Millis(parsed.audio_duration_sec) =
                  (IF "audio_duration" \in DOMAIN calc.provider
                   THEN calc.provider.audio_duration ELSE 0)

\* a result of two different words, the second starting at 1.25 s, without
\* the duration field: two words in the same order and a duration of 0
C22_Witness ==
    /\ calc.fn = "parse_transcription_result"
    /\ DOMAIN calc.provider = {"text", "words"}
    /\ Len(calc.provider.words) = 2
    /\ calc.provider.words[1].text # calc.provider.words[2].text
    /\ calc.provider.words[2].start = 1250
    /\ calc.result.raised = NoExc
    /\ calc.result.words[2].start = [sec |-> 1, thousandths |-> 250]
    /\ calc.result.audio_duration_sec = [sec |-> 0, thousandths |-> 0]

\* ------------------------------------------------------- stage order claim
\* a stage handing over to the next one
Forward ==
    {<<"upload", "submit">>, <<"submit", "poll">>, <<"poll", "parse">>,
     <<"parse", "analyze">>, <<"analyze", "feedback">>,
     <<"feedback", "build">>}

\* a stage leaving the try block with an exception
Abort ==
    {<<stage, "finally">> :
        stage \in {"upload", "submit", "poll", "parse", "analyze"}}

\* the steps around the stages: receipt, claim, end of the body, cleanup,
\* storing of the outcome
Around ==
    {<<"idle", "queued">>, <<"idle", "rejected">>, <<"queued", "upload">>,
     <<"build", "finally">>, <<"finally", "returned">>, <<"returned", "done">>}

UploadSucceeded(j) ==
    /\ uploadUrl[j] > 0
    /\ uploadLog[j] # <<>>
    /\ LET last == uploadLog[j][Len(uploadLog[j])]
       IN  last.kind = "response" /\ last.status \in {200, 201}
           /\ last.body = "upload_url"

GotTranscriptId(j) ==
    /\ submitLog[j] # <<>>
    /\ LET sent == submitLog[j][Len(submitLog[j])]
       IN  /\ sent.audio_url = uploadUrl[j]
           /\ sent.outcome.kind = "response" /\ sent.outcome.status = 200
           /\ sent.outcome.body = "id"

PollCompleted(j) ==
    /\ pollRequests[j] > 0
    /\ lastPoll[j].kind = "response" /\ lastPoll[j].status = 200
    /\ lastPoll[j].body = "completed"
    /\ provResult[j] = lastPoll[j].detail

StagesInOrder(j) ==
    /\ submitLog[j] # <<>> => UploadSucceeded(j)
    /\ pollRequests[j] > 0 => UploadSucceeded(j) /\ GotTranscriptId(j)
    /\ (pc[j] \in {"parse", "analyze", "feedback", "build"} \/ feedback[j] # "")
          => UploadSucceeded(j) /\ GotTranscriptId(j) /\ PollCompleted(j)
    /\ registry[j].state = "SUCCESS"
          => /\ UploadSucceeded(j) /\ GotTranscriptId(j) /\ PollCompleted(j)
             /\ feedback[j] # "" /\ exc[j] = NoExc
             /\ registry[j].result.text_feedback = feedback[j]
    /\ exc[j] # NoExc => Ended(j)

\* C23: in every job the stages follow one another in the order upload,
\* submit, poll, parse, analysis, feedback, build; a stage is entered only
\* from the one before it, and only when that one raised nothing; a stage that
\* raises leads to the cleanup, after which no request is sent, no feedback is
\* produced and no success is stored; a stored success has all stages behind it.
C23_StageOrder ==
    /\ [](\A j \in Jobs : StagesInOrder(j))
    /\ [][\A j \in Jobs :
            /\ pc'[j] # pc[j] =>
                  LET move == <<pc[j], pc'[j]>>
                  IN  /\ move \in Forward \cup Abort \cup Around
                      /\ move \in Forward => exc'[j] = NoExc
                      /\ move \in Abort => exc'[j] # NoExc
            /\ exc[j] # NoExc =>
                  /\ uploadLog'[j] = uploadLog[j]
                  /\ submitLog'[j] = submitLog[j]
                  /\ pollRequests'[j] = pollRequests[j]
                  /\ feedback'[j] = feedback[j]
                  /\ retval'[j] = retval[j]
                  /\ registry'[j].state # "SUCCESS"]_vars

\* a job whose success is stored after one retried upload, a submission and
\* some polls
C23_Witness ==
    \E j \in Jobs :
        /\ registry[j].state = "SUCCESS"
        /\ Len(uploadLog[j]) = 2
        /\ Len(submitLog[j]) = 1
        /\ pollRequests[j] = 3
        /\ feedback[j] # ""

\* ---------------------------------------------------------- artifact claims
\* C24 as claimed: every file in the upload directory belongs to a job that
\* was enqueued and whose outcome is not stored yet; a rejected or failed
\* submission leaves no file.
C24_AsClaimed ==
    \A j \in disk : (queue[j] + started[j] > 0) /\ ~Terminal(j)

\* what a task holds of job j, and the job's file and stored outcome
Own(j) ==
    <<pc[j], j \in disk, registry[j], attempt[j], uploadLog[j], waits[j],
      uploadUrl[j], submitLog[j], pollAttempt[j], pollRequests[j],
      pollSlept[j], lastPoll[j], provResult[j], feedback[j], exc[j],
      retval[j], queue[j], started[j]>>

\* the file of job j is needed: the job is enqueued or its task has not yet
\* reached its cleanup
NeedsFile(j) ==
    pc[j] \in {"queued", "upload", "submit", "poll", "parse", "analyze",
               "feedback", "build", "finally"}

\* C25: with two jobs in progress at once, every step belongs to one job and
\* leaves the other job's file, task state and stored outcome as they were; a
\* file is removed only by the cleanup of its own task; so a job has its file
\* from its receipt to its own cleanup, whatever the other job does, and no
\* task finds its file missing.
C25_NoInterference ==
    /\ [](\A j \in Jobs :
            /\ NeedsFile(j) => j \in disk
            /\ exc[j] # NoExc => ~InMessage("File not found", exc[j]))
    /\ [][/\ \E k \in Jobs : \A j \in Jobs \ {k} : Own(j)' = Own(j)
          /\ \A j \in Jobs :
                (j \in disk /\ j \notin disk') =>
                    pc[j] = "finally" /\ pc'[j] = "returned"]_vars

\* one job has failed and is cleaned up while the other one, started as
\* well, is polling with its file in place
C25_Witness ==
    \E j, k \in Jobs :
        /\ j # k
        /\ registry[j].state = "FAILURE" /\ j \notin disk /\ started[j] = 1
        /\ pc[k] = "poll" /\ k \in disk /\ started[k] = 1

====
